---- MODULE Spec2Model ----
(***************************************************************************)
(* The Vercel/Signadot example: the credential-isolating forwarding        *)
(* gateway (frontend/src/app/api/proxy/[...path]/route.ts), the target     *)
(* resolver (frontend/src/lib/config/api.ts) and the liveness poller       *)
(* (frontend/src/components/BackendStatus.tsx).                            *)
(*                                                                         *)
(* Spec runs one gateway invocation at a time over sample requests and     *)
(* upstream behaviours, SpecTwo runs MaxCalls invocations at once, SpecUrl *)
(* runs one invocation over every path and query string within the bounds, *)
(* SpecResolver calls the resolver's functions and SpecPoller runs the     *)
(* poller's component.                                                     *)
(*                                                                         *)
(* Strings are sequences of tokens (a token is one character or one        *)
(* indivisible chunk such as "localhost"); the empty string is <<>>.       *)
(* A JavaScript value that came out of JSON.parse is represented by its    *)
(* canonical serialisation, i.e. by what JSON.stringify makes of it.       *)
(***************************************************************************)
EXTENDS Integers, Sequences, FiniteSets, TLC

VARIABLES
    \* the gateway (route.ts): its two constants and the invocations in flight
    BACKEND_API_URL, SIGNADOT_API_KEY, calls,
    \* the resolver (lib/config/api.ts): its constant and the latest calls made
    API_URL, resolved,
    \* the poller (components/BackendStatus.tsx): the component's state
    \* (status, lastChecked and error of useState), the probes started, the
    \* recurring interval, the component's life cycle, the clock and the
    \* latest event
    statusState, lastChecked, errorState, probes, interval, mounted, now, event

gatewayVars == <<BACKEND_API_URL, SIGNADOT_API_KEY, calls>>
resolverVars == <<API_URL, resolved>>
pollerVars == <<statusState, lastChecked, errorState, probes, interval, mounted, now, event>>

vars == <<gatewayVars, resolverVars, pollerVars>>

-----------------------------------------------------------------------------
(* Bounds of the model                                                     *)

\* concurrent invocations in the two-call specification
MaxCalls == 2
\* tokens of an inbound query string in the URL specification
MaxQueryLen == 3
\* catch-all path segments in the URL specification
MaxSegments == 2
\* calls of the resolver's functions kept on record in the resolver
\* specification
MaxResolved == 2
\* probes started by one component in the poller specification
MaxProbes == 3
\* firings of the recurring interval in the poller specification
MaxTicks == 1

-----------------------------------------------------------------------------
(* Strings                                                                 *)

Range(s) == {s[k] : k \in 1..Len(s)}

\* String.prototype.includes
Includes(s, sub) ==
    \E k \in 0..(Len(s) - Len(sub)) : SubSeq(s, k + 1, k + Len(sub)) = sub

\* all sequences over alphabet of length at most n
SeqsUpTo(alphabet, n) == UNION {[1..k -> alphabet] : k \in 0..n}

RECURSIVE Join(_, _)
\* Array.prototype.join
Join(parts, sep) ==
    IF Len(parts) = 0 THEN <<>>
    ELSE IF Len(parts) = 1 THEN Head(parts)
    ELSE Head(parts) \o sep \o Join(Tail(parts), sep)

-----------------------------------------------------------------------------
(* URLSearchParams: parsing of the inbound query and its serialisation     *)

RECURSIVE SplitOn(_, _)
\* the pieces of s between occurrences of the token sep
SplitOn(s, sep) ==
    IF \A k \in 1..Len(s) : s[k] # sep THEN <<s>>
    ELSE LET k == CHOOSE j \in 1..Len(s) : s[j] = sep /\ \A h \in 1..(j - 1) : s[h] # sep
         IN  <<SubSeq(s, 1, k - 1)>> \o SplitOn(SubSeq(s, k + 1, Len(s)), sep)

\* application/x-www-form-urlencoded decoding of one name or value
FormDecode(s) ==
    [k \in 1..Len(s) |->
        IF s[k] \in {"+", "%20"} THEN " " ELSE IF s[k] = "%3D" THEN "=" ELSE s[k]]

\* application/x-www-form-urlencoded encoding of one name or value
FormEncode(s) ==
    [k \in 1..Len(s) |->
        IF s[k] = " " THEN "+" ELSE IF s[k] = "=" THEN "%3D" ELSE s[k]]

\* one name/value pair of a non-empty piece: split at the first "="
ParsePair(piece) ==
    LET nv == SplitOn(piece, "=")
        name == Head(nv)
        value == Join(Tail(nv), <<"=">>)
    IN  <<FormDecode(name), FormDecode(value)>>

\* new URLSearchParams(search): the list of name/value pairs
ParseQuery(search) ==
    LET pieces == SelectSeq(SplitOn(search, "&"), LAMBDA p : Len(p) > 0)
    IN  [k \in 1..Len(pieces) |-> ParsePair(pieces[k])]

\* URLSearchParams.prototype.toString
SerializeQuery(pairs) ==
    Join([k \in 1..Len(pairs) |->
            FormEncode(pairs[k][1]) \o <<"=">> \o FormEncode(pairs[k][2])], <<"&">>)

\* request.nextUrl.searchParams.toString()
searchParams(request) == SerializeQuery(ParseQuery(request.query))

-----------------------------------------------------------------------------
(* JSON.parse and JSON.stringify on token texts (objects, strings,         *)
(* numbers and the three literals; insignificant whitespace is skipped)    *)

Q == "\""
Digits == {"0", "1", "2"}
Literals == {"null", "true", "false"}

ParseFail == [ok |-> FALSE, next |-> 0, val |-> <<>>]

\* the first position at or after i that holds no whitespace
SkipWs(s, i) ==
    CHOOSE j \in i..(Len(s) + 1) :
        /\ (j = Len(s) + 1 \/ s[j] # " ")
        /\ \A h \in i..(j - 1) : s[h] = " "

\* a string literal starting at the quote s[i]
ParseString(s, i) ==
    IF \E j \in (i + 1)..Len(s) : s[j] = Q
    THEN LET j == CHOOSE j \in (i + 1)..Len(s) :
                      s[j] = Q /\ \A h \in (i + 1)..(j - 1) : s[h] # Q
         IN  [ok |-> TRUE, next |-> j + 1, val |-> SubSeq(s, i, j)]
    ELSE ParseFail

\* a number starting at the digit s[i]: the longest run of digits
ParseNumber(s, i) ==
    LET j == CHOOSE j \in i..Len(s) :
                 /\ \A h \in i..j : s[h] \in Digits
                 /\ (j = Len(s) \/ s[j + 1] \notin Digits)
    IN  [ok |-> TRUE, next |-> j + 1, val |-> SubSeq(s, i, j)]

RECURSIVE ParseValue(_, _), ParseMembers(_, _, _)
ParseValue(s, i0) ==
    LET i == SkipWs(s, i0) IN
    IF i > Len(s) THEN ParseFail
    ELSE IF s[i] \in Digits THEN ParseNumber(s, i)
    ELSE IF s[i] \in Literals THEN [ok |-> TRUE, next |-> i + 1, val |-> <<s[i]>>]
    ELSE IF s[i] = Q THEN ParseString(s, i)
    ELSE IF s[i] = "{"
         THEN LET j == SkipWs(s, i + 1) IN
              IF j <= Len(s) /\ s[j] = "}"
              THEN [ok |-> TRUE, next |-> j + 1, val |-> <<"{", "}">>]
              ELSE ParseMembers(s, j, <<"{">>)
    ELSE ParseFail

ParseMembers(s, i, acc) ==
    IF i > Len(s) \/ s[i] # Q THEN ParseFail
    ELSE LET k == ParseString(s, i) IN
         IF ~k.ok THEN ParseFail
         ELSE LET c == SkipWs(s, k.next) IN
              IF c > Len(s) \/ s[c] # ":" THEN ParseFail
              ELSE LET v == ParseValue(s, c + 1) IN
                   IF ~v.ok THEN ParseFail
                   ELSE LET e == SkipWs(s, v.next)
                            member == acc \o k.val \o <<":">> \o v.val
                        IN  IF e > Len(s) THEN ParseFail
                            ELSE IF s[e] = "}"
                                 THEN [ok |-> TRUE, next |-> e + 1, val |-> member \o <<"}">>]
                            ELSE IF s[e] = ","
                                 THEN ParseMembers(s, SkipWs(s, e + 1), member \o <<",">>)
                            ELSE ParseFail

\* JSON.parse(text): ok = FALSE stands for the SyntaxError it throws
JSONParse(text) ==
    LET r == ParseValue(text, 1) IN
    IF r.ok /\ SkipWs(text, r.next) > Len(text)
    THEN [ok |-> TRUE, val |-> r.val]
    ELSE [ok |-> FALSE, val |-> <<>>]

\* the JavaScript string with the given characters, as a JSON value
StringValue(text) ==
    <<Q>> \o [k \in 1..Len(text) |-> IF text[k] = Q THEN "\\\"" ELSE text[k]] \o <<Q>>

\* the JavaScript object { k1: v1, k2: v2 }, as a JSON value
ObjectValue(k1, v1, k2, v2) ==
    <<"{", Q, k1, Q, ":">> \o v1 \o <<",", Q, k2, Q, ":">> \o v2 \o <<"}">>

-----------------------------------------------------------------------------
(* Configuration, read once from the process environment                   *)

\* process.env.X || fallback: an unset or empty variable gives the fallback
EnvOr(value, fallback) == IF value = <<>> THEN fallback ELSE value

Localhost == <<"http://", "localhost", ":3000">>
SandboxSb == <<"https://", "api", ".sb.signadot.com">>
SandboxPreview == <<"https://", "pr-1", ".preview.signadot.com">>
Production == <<"https://", "api", ".example.com">>

\* values of NEXT_PUBLIC_API_URL (<<>>: unset)
EnvApiUrls == {<<>>, SandboxSb, SandboxPreview, Production}
\* values of SIGNADOT_API_KEY (<<>>: unset)
EnvApiKeys == {<<>>, <<"sk-1">>}

\* function isSignadotUrl(url = BACKEND_API_URL)
isSignadotUrl(url) ==
    Includes(url, <<".preview.signadot.com">>) \/ Includes(url, <<".sb.signadot.com">>)

-----------------------------------------------------------------------------
(* Header maps: functions from header names to values                      *)

EmptyMap == [n \in {} |-> <<>>]

\* { ...base, ...extra }: the later spread wins
Spread(base, extra) == extra @@ base

\* headers.get(name) && ... : the header is there and its value is not empty
HasTruthy(headers, name) == name \in DOMAIN headers /\ headers[name] # <<>>

ContentTypeJson == "Content-Type" :> <<"application/json">>

-----------------------------------------------------------------------------
(* One invocation of a route handler                                       *)

ExportedMethods == {"GET", "POST", "PUT", "DELETE", "PATCH"}
HttpMethods == ExportedMethods \cup {"HEAD", "OPTIONS"}

Undefined == [present |-> FALSE, text |-> <<>>]
Some(text) == [present |-> TRUE, text |-> text]

NoRequest == [method |-> "", path |-> <<>>, query |-> <<>>, headers |-> EmptyMap, body |-> <<>>]
NoOutbound == [url |-> <<>>, method |-> "", headers |-> EmptyMap, body |-> Undefined]
NoUpstream == [status |-> 0, headers |-> EmptyMap, text |-> <<>>]
NoResponse == [status |-> 0, headers |-> EmptyMap, body |-> <<>>]
NoBehaviour == [status |-> 0, kind |-> "", text |-> <<>>, origin |-> <<>>]
NoError == [isError |-> FALSE, message |-> <<>>]

IdleCall ==
    [pc |-> "idle", inbound |-> NoRequest, handler |-> "", method |-> "",
     outbound |-> NoOutbound, fetches |-> 0, served |-> NoBehaviour,
     upstream |-> NoUpstream, thrown |-> "none", error |-> NoError,
     response |-> NoResponse]

\* faulty variant of HandlerMethod: the DELETE handler passes 'GET'
HandlerMethodDeleteSendsGet(export) == IF export = "DELETE" THEN "GET" ELSE export
\* the method literal each exported handler passes to handleProxyRequest
HandlerMethod(export) ==
    CASE export = "GET" -> "GET"
      [] export = "POST" -> "POST"
      [] export = "PUT" -> "PUT"
      [] export = "DELETE" -> "DELETE"
      [] export = "PATCH" -> "PATCH"

\* faulty variant of backendPath: the leading '/' is forgotten
backendPathNoLeadingSlash(pathSegments) == Join(pathSegments, <<"/">>)
\* backendPath: '/' + pathSegments.join('/'), or '/' without segments
backendPath(pathSegments) ==
    IF Len(pathSegments) > 0 THEN <<"/">> \o Join(pathSegments, <<"/">>) ELSE <<"/">>

\* fullBackendUrl of an inbound request under the base address base
fullBackendUrl(base, request) ==
    LET backendUrl == base \o backendPath(request.path)
        search == searchParams(request)
    IN  IF search # <<>> THEN backendUrl \o <<"?">> \o search ELSE backendUrl

\* faulty variant of headers: the inbound headers are forwarded as well
headersForwardInbound(base, key, request) ==
    Spread(request.headers,
           IF isSignadotUrl(base) /\ key # <<>>
           THEN Spread(ContentTypeJson, "signadot-api-key" :> key)
           ELSE ContentTypeJson)
\* faulty variant of headers: the credential header is always attached
headersAlwaysKey(base, key, request) ==
    Spread(ContentTypeJson, "signadot-api-key" :> key)
\* the headers of the outbound request
headers(base, key, request) ==
    IF isSignadotUrl(base) /\ key # <<>>
    THEN Spread(ContentTypeJson, "signadot-api-key" :> key)
    ELSE ContentTypeJson

\* faulty variant of ReadsBody: DELETE is taken for a write method too
ReadsBodyAlsoDelete(method) == method \in {"POST", "PUT", "PATCH", "DELETE"}
\* ['POST', 'PUT', 'PATCH'].includes(method)
ReadsBody(method) == method \in {"POST", "PUT", "PATCH"}

\* faulty variant of IssueFetch: the body is kept in a variable of the module,
\* which an invocation that read its body earlier has already set
IssueFetchSharedBody(c, body) ==
    LET holders == {j \in DOMAIN calls : calls[j].outbound.body.present}
        shared == IF holders = {} THEN body
                  ELSE calls[CHOOSE j \in holders : \A k \in holders : j <= k].outbound.body
    IN  [c EXCEPT !.pc = "fetch",
                  !.outbound = [url |-> fullBackendUrl(BACKEND_API_URL, c.inbound),
                                method |-> c.method,
                                headers |-> headers(BACKEND_API_URL, SIGNADOT_API_KEY, c.inbound),
                                body |-> shared],
                  !.fetches = @ + 1]
\* fetch(fullBackendUrl, { method, headers, body }) is called
IssueFetch(c, body) ==
    [c EXCEPT !.pc = "fetch",
              !.outbound = [url |-> fullBackendUrl(BACKEND_API_URL, c.inbound),
                            method |-> c.method,
                            headers |-> headers(BACKEND_API_URL, SIGNADOT_API_KEY, c.inbound),
                            body |-> body],
              !.fetches = @ + 1]

-----------------------------------------------------------------------------
(* The upstream                                                            *)

\* statuses for which the Response constructor refuses a body
NullBodyStatuses == {101, 103, 204, 205, 304}

UpstreamStatuses == {200, 201, 204, 304, 401, 404, 503}

JsonDoc == <<"{", Q, "a", Q, ":", "1", "}">>
JsonDocSpaced == <<"{", " ", Q, "a", Q, ":", " ", "1", "}">>
PlainText == <<"hello">>

\* what an upstream does with a request: answer a fixed text, echo the body
\* it received, or echo the request headers it received
UpstreamKinds == {"static", "echoBody", "echoHeaders"}

\* the upstream behaviours: a status, a kind, the fixed text of a static
\* upstream and the CORS header it sets, if any
Upstreams(statuses, kinds, texts, origins) ==
    {u \in [status : statuses, kind : kinds, text : texts, origin : origins] :
        /\ (u.kind # "static" => u.text = <<>>)
        /\ (u.status \in NullBodyStatuses => u.kind = "static" /\ u.text = <<>>)}

\* the text an upstream of kind "echoHeaders" answers: the values of the
\* request headers it received
EchoedHeaders(outbound) ==
    LET h == outbound.headers
        one(n) == IF n \in DOMAIN h THEN <<n, ":">> \o h[n] \o <<";">> ELSE <<>>
    IN  one("Content-Type") \o one("signadot-api-key") \o one("authorization")

\* the response the upstream u gives to the outbound request
UpstreamAnswer(u, outbound) ==
    [status |-> u.status,
     headers |-> IF u.origin = <<>> THEN EmptyMap
                 ELSE "Access-Control-Allow-Origin" :> u.origin,
     text |-> CASE u.kind = "static" -> u.text
                [] u.kind = "echoBody" ->
                     IF outbound.body.present THEN outbound.body.text ELSE <<>>
                [] u.kind = "echoHeaders" -> EchoedHeaders(outbound)]

-----------------------------------------------------------------------------
(* Building the response                                                   *)

FetchFailed == [isError |-> TRUE, message |-> <<"fetch failed">>]
BodyTerminated == [isError |-> TRUE, message |-> <<"terminated">>]
InvalidStatus == [isError |-> TRUE, message |-> <<"Invalid response status code">>]

\* error instanceof Error ? error.message : 'Unknown error'
ErrorMessage(error) == IF error.isError THEN error.message ELSE <<"Unknown error">>

\* the body of the catch block's response
ErrorEnvelope(message) ==
    ObjectValue("error", StringValue(<<"Failed to proxy request to backend">>),
                "message", StringValue(message))

\* faulty variant of Catch: the error leaves the handler unhandled
CatchRethrow(c, where, error) ==
    [c EXCEPT !.pc = "crashed", !.thrown = where, !.error = error]
\* faulty variant of Catch: a failed fetch is issued once more
CatchRetry(c, where, error) ==
    IF where = "fetch" /\ c.fetches < 2
    THEN [c EXCEPT !.fetches = @ + 1]
    ELSE [c EXCEPT !.pc = "done", !.thrown = where, !.error = error,
                   !.response = [status |-> 500, headers |-> ContentTypeJson,
                                 body |-> ErrorEnvelope(ErrorMessage(error))]]
\* faulty variant of Catch: the envelope is sent with status 502
CatchBadGateway(c, where, error) ==
    [c EXCEPT !.pc = "done", !.thrown = where, !.error = error,
              !.response = [status |-> 502, headers |-> ContentTypeJson,
                            body |-> ErrorEnvelope(ErrorMessage(error))]]
\* the catch block of handleProxyRequest: the 500 envelope
Catch(c, where, error) ==
    [c EXCEPT !.pc = "done", !.thrown = where, !.error = error,
              !.response = [status |-> 500, headers |-> ContentTypeJson,
                            body |-> ErrorEnvelope(ErrorMessage(error))]]

\* faulty variant of jsonData: the text is relayed as a string, unparsed
jsonDataNoParse(responseData) == StringValue(responseData)
\* try { jsonData = JSON.parse(responseData) } catch { jsonData = responseData }
jsonData(responseData) ==
    IF JSONParse(responseData).ok THEN JSONParse(responseData).val
    ELSE StringValue(responseData)

\* the headers of the relayed response
RelayHeaders(upstream) ==
    IF HasTruthy(upstream.headers, "Access-Control-Allow-Origin")
    THEN Spread(ContentTypeJson,
                "Access-Control-Allow-Origin" :> upstream.headers["Access-Control-Allow-Origin"])
    ELSE ContentTypeJson

\* NextResponse.json(data, { status, headers }): the Response constructor
\* throws for a status outside 200..599 and for a body with a null-body status
NextResponseJson(data, status, hdrs) ==
    IF status < 200 \/ status > 599 \/ status \in NullBodyStatuses
    THEN [threw |-> TRUE, response |-> NoResponse]
    ELSE [threw |-> FALSE,
          response |-> [status |-> status, headers |-> hdrs, body |-> data]]

\* lines 141-162: the upstream's text has been read; relay it
Relay(c) ==
    LET built == NextResponseJson(jsonData(c.upstream.text), c.upstream.status,
                                  RelayHeaders(c.upstream))
    IN  IF built.threw THEN Catch(c, "construct", InvalidStatus)
        ELSE [c EXCEPT !.pc = "done", !.response = built.response]

-----------------------------------------------------------------------------
(* Inbound requests                                                        *)

ClientHeaderMaps ==
    {EmptyMap, "signadot-api-key" :> <<"forged">>, "authorization" :> <<"Bearer">>}

\* the inbound requests: only a write method carries a body
Requests(methods, paths, queries, headerMaps, bodies) ==
    {r \in [method : methods, path : paths, query : queries,
            headers : headerMaps, body : bodies] :
        ~ReadsBody(r.method) => r.body = <<>>}

\* the framework routes an inbound request to the handler exported under
\* the request's method; a HEAD without a HEAD export is served by the GET
\* export, and any other method without an export never reaches a handler
Route(r) ==
    IF r.method \in ExportedMethods
    THEN [IdleCall EXCEPT !.pc = "params", !.inbound = r, !.handler = r.method]
    ELSE IF r.method = "HEAD"
    THEN [IdleCall EXCEPT !.pc = "params", !.inbound = r, !.handler = "GET"]
    ELSE [IdleCall EXCEPT !.pc = "unrouted", !.inbound = r]

-----------------------------------------------------------------------------
(* The target resolver (lib/config/api.ts)                                 *)

\* String.prototype.startsWith('/') and endsWith('/'): "/" is a token of its
\* own in every path and address
StartsWithSlash(s) == Len(s) > 0 /\ s[1] = "/"
EndsWithSlash(s) == Len(s) > 0 /\ s[Len(s)] = "/"

\* faulty variant of ApiIsSignadotUrl: only the .sb suffix is looked for
ApiIsSignadotUrlSbOnly(url) == Includes(url, <<".sb.signadot.com">>)
\* function isSignadotUrl(url = API_URL) of api.ts
ApiIsSignadotUrl(url) ==
    Includes(url, <<".preview.signadot.com">>) \/ Includes(url, <<".sb.signadot.com">>)

\* faulty variant of cleanEndpoint: the leading separator is kept
cleanEndpointKeepsSlash(endpoint) == endpoint
\* endpoint.startsWith('/') ? endpoint.slice(1) : endpoint
cleanEndpoint(endpoint) ==
    IF StartsWithSlash(endpoint) THEN SubSeq(endpoint, 2, Len(endpoint)) ELSE endpoint

\* faulty variant of baseUrl: the trailing separator is kept
baseUrlKeepsSlash(url) == url
\* API_URL.endsWith('/') ? API_URL.slice(0, -1) : API_URL
baseUrl(url) == IF EndsWithSlash(url) THEN SubSeq(url, 1, Len(url) - 1) ELSE url

\* the route of the gateway, as the resolver spells it
ProxyPrefix == <<"/", "api", "/", "proxy", "/">>

\* faulty variant of getApiUrl: every target is addressed directly
getApiUrlDirect(endpoint) == baseUrl(API_URL) \o <<"/">> \o cleanEndpoint(endpoint)
\* function getApiUrl(endpoint)
getApiUrl(endpoint) ==
    IF ApiIsSignadotUrl(API_URL)
    THEN ProxyPrefix \o cleanEndpoint(endpoint)
    ELSE baseUrl(API_URL) \o <<"/">> \o cleanEndpoint(endpoint)

\* faulty variant of getApiHeaders: the credential is attached for an
\* isolated upstream
getApiHeadersWithKey(additionalHeaders) ==
    IF ApiIsSignadotUrl(API_URL) /\ SIGNADOT_API_KEY # <<>>
    THEN Spread(Spread(ContentTypeJson, "signadot-api-key" :> SIGNADOT_API_KEY),
                additionalHeaders)
    ELSE Spread(ContentTypeJson, additionalHeaders)
\* function getApiHeaders(additionalHeaders = {})
getApiHeaders(additionalHeaders) == Spread(ContentTypeJson, additionalHeaders)

\* the record of one call of a function of the resolver: its argument, the
\* local cleanEndpoint of getApiUrl, and what it returned
Returned(op, arg, clean, result) ==
    [op |-> op, arg |-> arg, clean |-> clean, result |-> result]

\* the latest MaxResolved calls
Record(log, call) ==
    LET all == Append(log, call)
    IN  IF Len(all) > MaxResolved THEN Tail(all) ELSE all

\* isSignadotUrl(url) is called
CallIsSignadotUrl(urls) ==
    /\ \E url \in urls :
          resolved' = Record(resolved,
                             Returned("isSignadotUrl", url, <<>>, ApiIsSignadotUrl(url)))
    /\ UNCHANGED <<API_URL, gatewayVars, pollerVars>>

\* getApiUrl(endpoint) is called
CallGetApiUrl(endpoints) ==
    /\ \E endpoint \in endpoints :
          resolved' = Record(resolved,
                             Returned("getApiUrl", endpoint, cleanEndpoint(endpoint),
                                      getApiUrl(endpoint)))
    /\ UNCHANGED <<API_URL, gatewayVars, pollerVars>>

\* getApiHeaders(additionalHeaders) is called
CallGetApiHeaders(extras) ==
    /\ \E additionalHeaders \in extras :
          resolved' = Record(resolved,
                             Returned("getApiHeaders", additionalHeaders, <<>>,
                                      getApiHeaders(additionalHeaders)))
    /\ UNCHANGED <<API_URL, gatewayVars, pollerVars>>

-----------------------------------------------------------------------------
(* The resolver and the poller at rest                                     *)

\* a Date | null and a string | null
NoDate == [present |-> FALSE, at |-> 0]
DateAt(t) == [present |-> TRUE, at |-> t]
Null == [present |-> FALSE, text |-> <<>>]

NoReply == [status |-> 0, statusText |-> <<>>, text |-> <<>>]
\* a value that is not an Error: no exception, or a thrown value of another
\* kind
NotAnError == [isError |-> FALSE, name |-> "", message |-> <<>>]
NoEvent == [kind |-> "none", probe |-> 0, reply |-> NoReply, caught |-> NotAnError]
NoInterval == [armed |-> FALSE, next |-> 0, ticks |-> 0]

\* no function of the resolver has been called
ResolverIdle == resolved = <<>>

\* the component before it is mounted: the initial values of useState
PollerIdle ==
    /\ statusState = "checking"
    /\ lastChecked = NoDate
    /\ errorState = Null
    /\ probes = <<>>
    /\ interval = NoInterval
    /\ mounted = "no"
    /\ now = 0
    /\ event = NoEvent

-----------------------------------------------------------------------------
(* The liveness poller (components/BackendStatus.tsx)                      *)

\* setTimeout(() => controller.abort(), 5000)
AbortAfter == 5000
\* setInterval(() => { checkBackendStatus(); }, 30000)
PollEvery == 30000

\* the clock is followed up to the abort of the probe started by the last
\* firing of the interval; it is read when a timer is due and a little
\* before
Horizon == MaxTicks * PollEvery + AbortAfter
ALittle == AbortAfter \div 2

\* the three useState values as one record, and the setters: React applies
\* the setter calls of one synchronous stretch together, and drops those of
\* an unmounted component
View == [status |-> statusState, lastChecked |-> lastChecked, error |-> errorState]
\* faulty variant of Render: the setters of an unmounted component still write
RenderUnmounted(view) ==
    /\ statusState' = view.status
    /\ lastChecked' = view.lastChecked
    /\ errorState' = view.error
Render(view) ==
    /\ statusState' = IF mounted = "yes" THEN view.status ELSE statusState
    /\ lastChecked' = IF mounted = "yes" THEN view.lastChecked ELSE lastChecked
    /\ errorState' = IF mounted = "yes" THEN view.error ELSE errorState

Text(t) == [present |-> TRUE, text |-> t]

\* errors a probe can be rejected with
AbortError == [isError |-> TRUE, name |-> "AbortError",
               message |-> <<"signal is aborted without reason">>]
FailedToFetch == [isError |-> TRUE, name |-> "TypeError", message |-> <<"Failed to fetch">>]
NotJson == [isError |-> TRUE, name |-> "SyntaxError",
            message |-> <<"Unexpected token in JSON">>]
NullHasNoStatus == [isError |-> TRUE, name |-> "TypeError",
                    message |-> <<"Cannot read properties of null (reading 'status')">>]
BodyLost == [isError |-> TRUE, name |-> "TypeError", message |-> <<"network error">>]
\* an Error that was created without a message
NoMessage == [isError |-> TRUE, name |-> "TypeError", message |-> <<>>]

\* one call of checkBackendStatus: where it stands, its abort timer and the
\* response its fetch resolved with
NewProbe(source) ==
    [stage |-> "fetch", source |-> source,
     url |-> getApiUrl(<<"/", "health">>), headers |-> getApiHeaders(EmptyMap),
     timer |-> "pending", deadline |-> now + AbortAfter, reply |-> NoReply, caught |-> NotAnError]

\* faulty variant of StartProbe: the error of the previous probe is kept
StartProbeKeepsError(source) ==
    /\ Render([View EXCEPT !.status = "checking"])
    /\ probes' = Append(probes, NewProbe(source))
    /\ event' = [kind |-> "start", probe |-> Len(probes) + 1, reply |-> NoReply, caught |-> NotAnError]
\* checkBackendStatus up to its await fetch(...)
StartProbe(source) ==
    /\ Render([View EXCEPT !.status = "checking", !.error = Null])
    /\ probes' = Append(probes, NewProbe(source))
    /\ event' = [kind |-> "start", probe |-> Len(probes) + 1, reply |-> NoReply, caught |-> NotAnError]

\* Response.ok
ResponseOk(response) == response.status \in 200..299

\* faulty variant of HttpError: the status code is left out
HttpErrorWithoutCode(response) == <<"HTTP ", ": ">> \o response.statusText
\* `HTTP ${response.status}: ${response.statusText}`
HttpError(response) ==
    <<"HTTP ", ToString(response.status), ": ">> \o response.statusText

RECURSIVE MemberFrom(_, _, _)
\* the member of the object value val named key, searched from the member
\* that starts at position i; a later member of the same name wins
MemberFrom(val, i, key) ==
    IF i > Len(val) \/ val[i] # Q THEN [defined |-> FALSE, val |-> <<>>]
    ELSE LET k == ParseString(val, i)
             v == ParseValue(val, k.next + 1)
             later == MemberFrom(val, v.next + 1, key)
         IN  IF later.defined THEN later
             ELSE IF k.val = <<Q, key, Q>> THEN [defined |-> TRUE, val |-> v.val]
             ELSE [defined |-> FALSE, val |-> <<>>]

\* data[key] of a JSON value other than null: undefined unless data is an
\* object with that member
Property(data, key) ==
    IF data[1] = "{" THEN MemberFrom(data, 2, key) ELSE [defined |-> FALSE, val |-> <<>>]

\* faulty variant of OnError: an abort is reported with its own message
OnErrorAbortMessage(err) ==
    [View EXCEPT !.status = "offline",
                 !.error = IF err.isError THEN Text(err.message)
                           ELSE Text(<<"Failed to connect to backend">>)]
\* the catch block of checkBackendStatus
OnError(err) ==
    [View EXCEPT !.status = "offline",
                 !.error = IF err.isError
                           THEN IF err.name = "AbortError" THEN Text(<<"Request timeout">>)
                                ELSE Text(err.message)
                           ELSE Text(<<"Failed to connect to backend">>)]

\* faulty variant of OnNotOk: the error is set and the status is left alone
OnNotOkKeepsStatus(response) ==
    [View EXCEPT !.error = Text(HttpError(response))]
\* the response is not ok: the else branch of if (response.ok)
OnNotOk(response) ==
    [View EXCEPT !.status = "offline", !.error = Text(HttpError(response))]

\* faulty variant of OnBody: the time is recorded for an unhealthy payload too
OnBodyStampsAlways(text) ==
    LET parsed == JSONParse(text) IN
    IF ~parsed.ok THEN OnError(NotJson)
    ELSE IF parsed.val = <<"null">> THEN OnError(NullHasNoStatus)
    ELSE IF Property(parsed.val, "status") = [defined |-> TRUE, val |-> <<Q, "healthy", Q>>]
         THEN [View EXCEPT !.status = "online", !.lastChecked = DateAt(now)]
         ELSE [View EXCEPT !.status = "offline", !.lastChecked = DateAt(now),
                           !.error = Text(<<"Backend returned unhealthy status">>)]
\* await response.json() has settled with the body text: JSON.parse of it,
\* then if (data.status === 'healthy')
OnBody(text) ==
    LET parsed == JSONParse(text) IN
    IF ~parsed.ok THEN OnError(NotJson)
    ELSE IF parsed.val = <<"null">> THEN OnError(NullHasNoStatus)
    ELSE IF Property(parsed.val, "status") = [defined |-> TRUE, val |-> <<Q, "healthy", Q>>]
         THEN [View EXCEPT !.status = "online", !.lastChecked = DateAt(now)]
         ELSE [View EXCEPT !.status = "offline",
                           !.error = Text(<<"Backend returned unhealthy status">>)]

IntervalDue == interval.armed /\ interval.next <= now
TimerDue(i) == probes[i].timer = "pending" /\ probes[i].deadline <= now

\* the component is mounted: useEffect starts the first probe and arms the
\* interval
Mount ==
    /\ mounted = "no"
    /\ mounted' = "yes"
    /\ statusState' = "checking"
    /\ errorState' = Null
    /\ lastChecked' = lastChecked
    /\ probes' = Append(probes, NewProbe("mount"))
    /\ event' = [kind |-> "start", probe |-> Len(probes) + 1, reply |-> NoReply, caught |-> NotAnError]
    /\ interval' = [armed |-> TRUE, next |-> now + PollEvery, ticks |-> 0]
    /\ UNCHANGED <<now, gatewayVars, resolverVars>>

\* faulty variant of Tick: a firing is dropped while a probe is in flight
TickUnlessInFlight ==
    /\ IntervalDue
    /\ \A i \in DOMAIN probes : probes[i].stage = "done"
    /\ interval.ticks < MaxTicks
    /\ Len(probes) < MaxProbes
    /\ StartProbe("interval")
    /\ interval' = [interval EXCEPT !.next = @ + PollEvery, !.ticks = @ + 1]
    /\ UNCHANGED <<mounted, now, gatewayVars, resolverVars>>
\* the interval fires: a scheduled probe starts
Tick ==
    /\ IntervalDue
    /\ interval.ticks < MaxTicks
    /\ Len(probes) < MaxProbes
    /\ StartProbe("interval")
    /\ interval' = [interval EXCEPT !.next = @ + PollEvery, !.ticks = @ + 1]
    /\ UNCHANGED <<mounted, now, gatewayVars, resolverVars>>

\* faulty variant of Refresh: the button is never disabled
RefreshAlways ==
    /\ mounted = "yes"
    /\ Len(probes) < MaxProbes
    /\ StartProbe("manual")
    /\ UNCHANGED <<interval, mounted, now, gatewayVars, resolverVars>>
\* a click on Refresh, which is disabled while status is 'checking'
Refresh ==
    /\ mounted = "yes"
    /\ statusState # "checking"
    /\ Len(probes) < MaxProbes
    /\ StartProbe("manual")
    /\ UNCHANGED <<interval, mounted, now, gatewayVars, resolverVars>>

\* await fetch(...) resolves with a response before the abort: the timer is
\* cleared; a response that is not ok ends the probe, an ok one is read
FetchResolves(i, replies) ==
    /\ probes[i].stage = "fetch"
    /\ \E r \in replies :
          /\ probes' = [probes EXCEPT ![i].timer = "cleared", ![i].deadline = 0,
                                      ![i].reply = IF ResponseOk(r) THEN r ELSE NoReply,
                                      ![i].stage = IF ResponseOk(r) THEN "json" ELSE "done"]
          /\ Render(IF ResponseOk(r) THEN View ELSE OnNotOk(r))
          /\ event' = [kind |-> "response", probe |-> i, reply |-> r, caught |-> NotAnError]
    /\ UNCHANGED <<interval, mounted, now, gatewayVars, resolverVars>>

\* await fetch(...) rejects before the abort: the catch block runs, the
\* timer stays
FetchRejects(i, errors) ==
    /\ probes[i].stage = "fetch"
    /\ probes' = [probes EXCEPT ![i].stage = "done"]
    /\ \E err \in errors :
          /\ Render(OnError(err))
          /\ event' = [kind |-> "rejected", probe |-> i, reply |-> NoReply, caught |-> err]
    /\ UNCHANGED <<interval, mounted, now, gatewayVars, resolverVars>>

\* the abort timer fires: controller.abort() rejects a pending fetch with an
\* AbortError, and does nothing to a call that has ended
TimerFires(i) ==
    /\ TimerDue(i)
    /\ probes' = [probes EXCEPT ![i].timer = "fired", ![i].deadline = 0,
                                ![i].stage = "done"]
    /\ Render(IF probes[i].stage = "fetch" THEN OnError(AbortError) ELSE View)
    /\ event' = [kind |-> IF probes[i].stage = "fetch" THEN "timeout" ELSE "timer",
                 probe |-> i, reply |-> NoReply,
                 caught |-> IF probes[i].stage = "fetch" THEN AbortError ELSE NotAnError]
    /\ UNCHANGED <<interval, mounted, now, gatewayVars, resolverVars>>

\* await response.json() settles: the body has arrived
BodyArrives(i, texts) ==
    /\ probes[i].stage = "json"
    /\ \E text \in texts :
          /\ probes' = [probes EXCEPT ![i].stage = "done", ![i].reply = NoReply]
          /\ Render(OnBody(text))
          /\ event' = [kind |-> "body", probe |-> i,
                       reply |-> [probes[i].reply EXCEPT !.text = text],
                       caught |-> NotAnError]
    /\ UNCHANGED <<interval, mounted, now, gatewayVars, resolverVars>>

\* await response.json() rejects: the connection broke while the body was
\* read
BodyFails(i) ==
    /\ probes[i].stage = "json"
    /\ probes' = [probes EXCEPT ![i].stage = "done", ![i].reply = NoReply]
    /\ Render(OnError(BodyLost))
    /\ event' = [kind |-> "bodyFailed", probe |-> i, reply |-> probes[i].reply,
                 caught |-> BodyLost]
    /\ UNCHANGED <<interval, mounted, now, gatewayVars, resolverVars>>

\* the times at which a timer of the component is due
DueTimes ==
    {probes[i].deadline : i \in {j \in DOMAIN probes : probes[j].timer = "pending"}}
        \cup (IF interval.armed THEN {interval.next} ELSE {})

\* time passes, once every timer that is due has fired: up to the next time
\* a timer is due, or to a little before it
Advance ==
    /\ mounted # "no"
    /\ ~IntervalDue
    /\ \A i \in DOMAIN probes : ~TimerDue(i)
    /\ \E due \in DueTimes : \E t \in {due - ALittle, due} :
          /\ \A other \in DueTimes : due <= other
          /\ now < t
          /\ t <= Horizon
          /\ now' = t
    /\ event' = [kind |-> "advance", probe |-> 0, reply |-> NoReply, caught |-> NotAnError]
    /\ UNCHANGED <<statusState, lastChecked, errorState, probes, interval, mounted,
                   gatewayVars, resolverVars>>

\* faulty variant of Unmount: the interval is left running
UnmountKeepsInterval ==
    /\ mounted = "yes"
    /\ mounted' = "unmounted"
    /\ event' = [kind |-> "unmount", probe |-> 0, reply |-> NoReply, caught |-> NotAnError]
    /\ UNCHANGED <<statusState, lastChecked, errorState, probes, interval, now,
                   gatewayVars, resolverVars>>
\* the component is unmounted: the effect's cleanup clears the interval
Unmount ==
    /\ mounted = "yes"
    /\ mounted' = "unmounted"
    /\ interval' = [interval EXCEPT !.armed = FALSE]
    /\ event' = [kind |-> "unmount", probe |-> 0, reply |-> NoReply, caught |-> NotAnError]
    /\ UNCHANGED <<statusState, lastChecked, errorState, probes, now,
                   gatewayVars, resolverVars>>

-----------------------------------------------------------------------------
(* Actions: the steps of one invocation, cut at its await points           *)

\* an inbound request arrives and is routed
Dispatch(i, reqs) ==
    /\ calls[i].pc = "idle"
    /\ \E r \in reqs : calls' = [calls EXCEPT ![i] = Route(r)]
    /\ UNCHANGED <<BACKEND_API_URL, SIGNADOT_API_KEY, resolverVars, pollerVars>>

\* await params resolves; handleProxyRequest runs up to its first await
ParamsResolved(i) ==
    /\ calls[i].pc = "params"
    /\ LET c == [calls[i] EXCEPT !.method = HandlerMethod(calls[i].handler)]
       IN  calls' = [calls EXCEPT ![i] =
                        IF ReadsBody(c.method) THEN [c EXCEPT !.pc = "text"]
                        ELSE IssueFetch(c, Undefined)]
    /\ UNCHANGED <<BACKEND_API_URL, SIGNADOT_API_KEY, resolverVars, pollerVars>>

\* await request.text() settles: with the body, or with an error that is
\* logged and leaves body undefined
BodyRead(i) ==
    /\ calls[i].pc = "text"
    /\ \E ok \in BOOLEAN :
          calls' = [calls EXCEPT ![i] =
                       IssueFetch(calls[i], IF ok THEN Some(calls[i].inbound.body)
                                                  ELSE Undefined)]
    /\ UNCHANGED <<BACKEND_API_URL, SIGNADOT_API_KEY, resolverVars, pollerVars>>

\* await fetch(...) resolves with the upstream's response
FetchSettles(i, ups) ==
    /\ calls[i].pc = "fetch"
    /\ \E u \in ups :
          calls' = [calls EXCEPT ![i] =
                       [calls[i] EXCEPT !.pc = "read", !.served = u,
                                        !.upstream = UpstreamAnswer(u, calls[i].outbound)]]
    /\ UNCHANGED <<BACKEND_API_URL, SIGNADOT_API_KEY, resolverVars, pollerVars>>

\* await fetch(...) rejects: the upstream could not be reached
FetchFails(i) ==
    /\ calls[i].pc = "fetch"
    /\ calls' = [calls EXCEPT ![i] = Catch(calls[i], "fetch", FetchFailed)]
    /\ UNCHANGED <<BACKEND_API_URL, SIGNADOT_API_KEY, resolverVars, pollerVars>>

\* await backendResponse.text() resolves; the response is built and returned
TextRead(i) ==
    /\ calls[i].pc = "read"
    /\ calls' = [calls EXCEPT ![i] = Relay(calls[i])]
    /\ UNCHANGED <<BACKEND_API_URL, SIGNADOT_API_KEY, resolverVars, pollerVars>>

\* await backendResponse.text() rejects: the upstream's body broke off
TextFails(i) ==
    /\ calls[i].pc = "read"
    /\ calls' = [calls EXCEPT ![i] = Catch(calls[i], "text", BodyTerminated)]
    /\ UNCHANGED <<BACKEND_API_URL, SIGNADOT_API_KEY, resolverVars, pollerVars>>

\* the response has been sent; the invocation's objects are discarded
Finish(i) ==
    /\ calls[i].pc \in {"done", "unrouted"}
    /\ calls' = [calls EXCEPT ![i] = IdleCall]
    /\ UNCHANGED <<BACKEND_API_URL, SIGNADOT_API_KEY, resolverVars, pollerVars>>

-----------------------------------------------------------------------------
(* Specifications                                                          *)

\* module initialisation: both constants are read from the environment
InitConfig ==
    /\ BACKEND_API_URL \in {EnvOr(v, Localhost) : v \in EnvApiUrls}
    /\ SIGNADOT_API_KEY \in {EnvOr(v, <<>>) : v \in EnvApiKeys}
    /\ API_URL = BACKEND_API_URL

SamplePaths == {<<<<"health">>>>, <<<<"api">>, <<"users">>>>}
SampleQueries == {<<>>, <<"a", "=", "1">>}
SampleBodies == {<<>>, JsonDoc, JsonDocSpaced, PlainText}

AllRequests ==
    Requests(HttpMethods, SamplePaths, SampleQueries, ClientHeaderMaps, SampleBodies)
AllUpstreams ==
    Upstreams(UpstreamStatuses, UpstreamKinds, {<<>>, JsonDoc, PlainText}, {<<>>, <<"*">>})

Init ==
    /\ InitConfig
    /\ calls = [i \in {1} |-> IdleCall]
    /\ ResolverIdle
    /\ PollerIdle

Next ==
    \/ \E i \in DOMAIN calls : Dispatch(i, AllRequests)
    \/ \E i \in DOMAIN calls : ParamsResolved(i)
    \/ \E i \in DOMAIN calls : BodyRead(i)
    \/ \E i \in DOMAIN calls : FetchSettles(i, AllUpstreams)
    \/ \E i \in DOMAIN calls : FetchFails(i)
    \/ \E i \in DOMAIN calls : TextRead(i)
    \/ \E i \in DOMAIN calls : TextFails(i)
    \/ \E i \in DOMAIN calls : Finish(i)

Spec == Init /\ [][Next]_vars

\* two or more invocations in flight at once, on requests that differ only
\* in their headers
PairRequests ==
    Requests({"POST"}, {<<<<"health">>>>}, {<<>>}, ClientHeaderMaps, {JsonDoc})
PairUpstreams == Upstreams({200}, {"static"}, {JsonDoc}, {<<>>})

InitTwo ==
    /\ InitConfig
    /\ calls = [i \in 1..MaxCalls |-> IdleCall]
    /\ ResolverIdle
    /\ PollerIdle

NextTwo ==
    \/ \E i \in DOMAIN calls : Dispatch(i, PairRequests)
    \/ \E i \in DOMAIN calls : ParamsResolved(i)
    \/ \E i \in DOMAIN calls : BodyRead(i)
    \/ \E i \in DOMAIN calls : FetchSettles(i, PairUpstreams)
    \/ \E i \in DOMAIN calls : FetchFails(i)
    \/ \E i \in DOMAIN calls : TextRead(i)
    \/ \E i \in DOMAIN calls : TextFails(i)
    \/ \E i \in DOMAIN calls : Finish(i)

SpecTwo == InitTwo /\ [][NextTwo]_vars

\* invocations in flight at once on requests with different bodies, against
\* upstreams whose answer depends on the request they receive
NextInterleaved ==
    \/ \E i \in DOMAIN calls : Dispatch(i, Requests({"POST"}, {<<<<"health">>>>}, {<<>>},
                                                   {EmptyMap}, {JsonDoc, PlainText}))
    \/ \E i \in DOMAIN calls : ParamsResolved(i)
    \/ \E i \in DOMAIN calls : BodyRead(i)
    \/ \E i \in DOMAIN calls : FetchSettles(i, Upstreams({200}, {"static", "echoBody"},
                                                        {<<>>, PlainText}, {<<>>}))
    \/ \E i \in DOMAIN calls : FetchFails(i)
    \/ \E i \in DOMAIN calls : TextRead(i)
    \/ \E i \in DOMAIN calls : TextFails(i)
    \/ \E i \in DOMAIN calls : Finish(i)

SpecInterleaved == InitTwo /\ [][NextInterleaved]_vars

\* one invocation at a time, over every path and every query string within
\* the bounds
SegmentNames == {<<"health">>, <<"users">>}
QueryTokens == {"a", "=", "&", "+", "%20"}

UrlRequests ==
    Requests({"GET", "POST"}, SeqsUpTo(SegmentNames, MaxSegments),
             SeqsUpTo(QueryTokens, MaxQueryLen), {EmptyMap}, {<<>>})
UrlUpstreams == Upstreams({200}, {"static"}, {JsonDoc}, {<<>>})

NextUrl ==
    \/ \E i \in DOMAIN calls : Dispatch(i, UrlRequests)
    \/ \E i \in DOMAIN calls : ParamsResolved(i)
    \/ \E i \in DOMAIN calls : BodyRead(i)
    \/ \E i \in DOMAIN calls : FetchSettles(i, UrlUpstreams)
    \/ \E i \in DOMAIN calls : FetchFails(i)
    \/ \E i \in DOMAIN calls : TextRead(i)
    \/ \E i \in DOMAIN calls : TextFails(i)
    \/ \E i \in DOMAIN calls : Finish(i)

SpecUrl == Init /\ [][NextUrl]_vars

-----------------------------------------------------------------------------
(* The resolver specification: the functions of api.ts are called, in any  *)
(* order, under one configuration                                          *)

\* addresses that look like a sandbox's without being one, and sandbox and
\* production addresses with more than a host
LookalikeHost == <<"https://", "api", ".sb.signadot.com", ".example.com">>
LookalikePath == <<"https://", "api", ".example.com", "/", "files", ".sb.signadot.com">>
LookalikeQuery == <<"https://", "api", ".example.com", "/", "?", "next", "=", ".preview.signadot.com">>
SandboxSbPath == SandboxSb \o <<"/", "v1">>
SandboxPreviewPort == SandboxPreview \o <<":8443">>
ProductionSlash == Production \o <<"/">>
ProductionTwoSlashes == Production \o <<"/", "/">>
SandboxSbSlash == SandboxSb \o <<"/">>

\* values of NEXT_PUBLIC_API_URL in the resolver specification
ResolverEnvUrls ==
    EnvApiUrls \cup {ProductionSlash, ProductionTwoSlashes, SandboxSbSlash, LookalikePath}

\* arguments of isSignadotUrl
ClassifiedUrls ==
    {Localhost, SandboxSb, SandboxPreview, Production, SandboxSbPath, SandboxPreviewPort,
     ProductionSlash, LookalikeHost, LookalikePath, LookalikeQuery}

\* arguments of getApiUrl
Endpoints ==
    {<<>>, <<"/">>, <<"health">>, <<"/", "health">>, <<"/", "/", "health">>,
     <<"api", "/", "users">>, <<"/", "api", "/", "users">>, <<"health", "/">>}

\* arguments of getApiHeaders
AdditionalHeaders ==
    {EmptyMap, "Authorization" :> <<"Bearer t">>, "Content-Type" :> <<"text/plain">>,
     "signadot-api-key" :> <<"sk-client">>,
     ("Authorization" :> <<"Bearer t">>) @@ ("X-Request-Id" :> <<"r1">>)}

InitResolver ==
    /\ API_URL \in {EnvOr(v, Localhost) : v \in ResolverEnvUrls}
    /\ BACKEND_API_URL = API_URL
    /\ SIGNADOT_API_KEY \in {EnvOr(v, <<>>) : v \in EnvApiKeys}
    /\ calls = [i \in {1} |-> IdleCall]
    /\ ResolverIdle
    /\ PollerIdle

NextResolver ==
    \/ CallIsSignadotUrl(ClassifiedUrls \cup {API_URL})
    \/ CallGetApiUrl(Endpoints)
    \/ CallGetApiHeaders(AdditionalHeaders)

SpecResolver == InitResolver /\ [][NextResolver]_vars

-----------------------------------------------------------------------------
(* The routed specification: a client asks the resolver for the target of  *)
(* a logical path and, when the target is a path of the gateway, sends its *)
(* request there; the gateway can be called by anyone else as well         *)

\* the target is a path under the gateway's route
IsGatewayPath(url) == Len(url) >= 5 /\ SubSeq(url, 1, 5) = ProxyPrefix

\* params.path of the catch-all route app/api/proxy/[...path] for a request
\* path: the segments that follow /api/proxy/
PathParams(url) == SplitOn(SubSeq(url, 6, Len(url)), "/")

\* fetch(getApiUrl(p), ...) with a target under the gateway's route: the
\* request arrives at the gateway with the client's headers
ClientFetch(i) ==
    \E k \in DOMAIN resolved :
        /\ resolved[k].op = "getApiUrl"
        /\ IsGatewayPath(resolved[k].result)
        /\ Dispatch(i, Requests({"GET", "POST"}, {PathParams(resolved[k].result)}, {<<>>},
                                {getApiHeaders(EmptyMap)}, {<<>>, JsonDoc}))

\* the resolver is asked for logical paths whose segments are not empty; the
\* gateway also receives requests of clients that did not ask the resolver
NextRouted ==
    \/ CallGetApiUrl({<<"health">>, <<"/", "health">>, <<"api", "/", "users">>,
                      <<"/", "api", "/", "users">>})
    \/ \E i \in DOMAIN calls : ClientFetch(i)
    \/ \E i \in DOMAIN calls : Dispatch(i, Requests({"GET"}, {<<<<"health">>>>}, {<<>>},
                                                   {EmptyMap}, {<<>>}))
    \/ \E i \in DOMAIN calls : ParamsResolved(i)
    \/ \E i \in DOMAIN calls : BodyRead(i)
    \/ \E i \in DOMAIN calls : FetchSettles(i, UrlUpstreams)
    \/ \E i \in DOMAIN calls : FetchFails(i)
    \/ \E i \in DOMAIN calls : TextRead(i)
    \/ \E i \in DOMAIN calls : TextFails(i)
    \/ \E i \in DOMAIN calls : Finish(i)

SpecRouted == InitResolver /\ [][NextRouted]_vars

-----------------------------------------------------------------------------
(* The poller specification: one component is mounted, polls and is        *)
(* unmounted                                                               *)

\* what /health of the backend answers, and what else may come back
HealthyDoc ==
    <<"{", Q, "status", Q, ":", Q, "healthy", Q, ",", Q, "port", Q, ":", "1", "}">>
DegradedDoc == <<"{", Q, "status", Q, ":", Q, "degraded", Q, "}">>
NestedDoc == <<"{", Q, "data", Q, ":", "{", Q, "status", Q, ":", Q, "healthy", Q, "}", "}">>

HealthBodies == {HealthyDoc, DegradedDoc, NestedDoc, <<"null">>, <<"<html>">>}

\* the responses a health call resolves with: the body of an ok response
\* arrives later
HealthReplies ==
    {[status |-> 200, statusText |-> <<"OK">>, text |-> <<>>],
     [status |-> 503, statusText |-> <<"Service Unavailable">>, text |-> <<>>],
     [status |-> 500, statusText |-> <<>>, text |-> <<>>]}

\* what a health call is rejected with, short of an abort: the platform's
\* TypeError, an Error without a message, a thrown value that is no Error
Rejections == {FailedToFetch, NoMessage, NotAnError}

InitPoller ==
    /\ API_URL \in {EnvOr(v, Localhost) : v \in {SandboxSb, Production}}
    /\ BACKEND_API_URL = API_URL
    /\ SIGNADOT_API_KEY = <<"sk-1">>
    /\ calls = [i \in {1} |-> IdleCall]
    /\ ResolverIdle
    /\ PollerIdle

NextPoller ==
    \/ Mount
    \/ Tick
    \/ Refresh
    \/ \E i \in DOMAIN probes : FetchResolves(i, HealthReplies)
    \/ \E i \in DOMAIN probes : FetchRejects(i, Rejections)
    \/ \E i \in DOMAIN probes : TimerFires(i)
    \/ \E i \in DOMAIN probes : BodyArrives(i, HealthBodies)
    \/ \E i \in DOMAIN probes : BodyFails(i)
    \/ Advance
    \/ Unmount

SpecPoller == InitPoller /\ [][NextPoller]_vars

-----------------------------------------------------------------------------
(* The probed specification: the component polls an isolated upstream, so  *)
(* that each health call is a request to the gateway, which forwards it    *)

\* the request of probe i arrives at the gateway
ProbeReaches(i) ==
    /\ i \in DOMAIN probes
    /\ IsGatewayPath(probes[i].url)
    /\ Dispatch(i, {[method |-> "GET", path |-> PathParams(probes[i].url), query |-> <<>>,
                      headers |-> probes[i].headers, body |-> <<>>]})

\* the gateway's response reaches the browser: fetch resolves with its
\* status and the reason phrase of its status line, if any (there is none
\* over HTTP/2)
GatewayAnswers(i) ==
    /\ i \in DOMAIN probes
    /\ calls[i].pc = "done"
    /\ LET status == calls[i].response.status
           phrase == CASE status = 200 -> <<"OK">>
                       [] status = 500 -> <<"Internal Server Error">>
                       [] status = 503 -> <<"Service Unavailable">>
                       [] OTHER -> <<>>
       IN  FetchResolves(i, {[status |-> status, statusText |-> t, text |-> <<>>] :
                                t \in {<<>>, phrase}})

\* the body of the gateway's response reaches the browser
GatewayBodyArrives(i) ==
    /\ i \in DOMAIN probes
    /\ calls[i].pc = "done"
    /\ BodyArrives(i, {calls[i].response.body})

InitProbed ==
    /\ API_URL \in {EnvOr(v, Localhost) : v \in {SandboxSb, SandboxPreview}}
    /\ BACKEND_API_URL = API_URL
    /\ SIGNADOT_API_KEY = EnvOr(<<"sk-1">>, <<>>)
    /\ calls = [i \in 1..MaxProbes |-> IdleCall]
    /\ ResolverIdle
    /\ PollerIdle

NextProbed ==
    \/ Mount
    \/ Tick
    \/ \E i \in DOMAIN calls : ProbeReaches(i)
    \/ \E i \in DOMAIN calls : ParamsResolved(i)
    \/ \E i \in DOMAIN calls : FetchSettles(i, Upstreams({200, 503}, {"static"}, {HealthyDoc}, {<<>>}))
    \/ \E i \in DOMAIN calls : FetchFails(i)
    \/ \E i \in DOMAIN calls : TextRead(i)
    \/ \E i \in DOMAIN calls : TextFails(i)
    \/ \E i \in DOMAIN calls : GatewayAnswers(i)
    \/ \E i \in DOMAIN calls : GatewayBodyArrives(i)
    \/ \E i \in DOMAIN probes : TimerFires(i)
    \/ Advance
    \/ Unmount

SpecProbed == InitProbed /\ [][NextProbed]_vars

-----------------------------------------------------------------------------
(* Claims                                                                  *)

\* the invocation has issued its outbound request
Sent(c) == c.fetches > 0

Isolated == isSignadotUrl(BACKEND_API_URL)
CredentialHeader == "signadot-api-key"

SameButHeaders(r1, r2) ==
    /\ r1.method = r2.method
    /\ r1.path = r2.path
    /\ r1.query = r2.query
    /\ r1.body = r2.body

\* the header set the configuration alone prescribes
ConfiguredHeaders ==
    IF Isolated /\ SIGNADOT_API_KEY # <<>>
    THEN [n \in {"Content-Type", CredentialHeader} |->
             IF n = "Content-Type" THEN <<"application/json">> ELSE SIGNADOT_API_KEY]
    ELSE [n \in {"Content-Type"} |-> <<"application/json">>]

C3_KeyNeverInResponse ==
    \A i \in DOMAIN calls :
        (calls[i].pc = "done" /\ SIGNADOT_API_KEY # <<>>) =>
            /\ ~Includes(calls[i].response.body, SIGNADOT_API_KEY)
            /\ \A n \in DOMAIN calls[i].response.headers :
                   ~Includes(calls[i].response.headers[n], SIGNADOT_API_KEY)

\* the upstream's response arrived whole: no step of the transport failed
Answered(c) == c.pc = "done" /\ c.served # NoBehaviour /\ c.thrown # "text"

\* C4: whenever the outbound call completes with an upstream response, the
\* gateway's response carries exactly the upstream's status.
C4_UpstreamStatusRelayed ==
    \A i \in DOMAIN calls :
        Answered(calls[i]) => calls[i].response.status = calls[i].upstream.status

\* the envelope { error: "Failed to proxy request to backend", message: m }
EnvelopePrefix ==
    <<"{", Q, "error", Q, ":", Q, "Failed to proxy request to backend", Q, ",",
      Q, "message", Q, ":", Q>>
IsEnvelope(body) ==
    LET m == SubSeq(body, Len(EnvelopePrefix) + 1, Len(body) - 2) IN
    /\ Len(body) > Len(EnvelopePrefix) + 2
    /\ body = EnvelopePrefix \o m \o <<Q, "}">>
    /\ Q \notin Range(m)

StructuredJson(response) ==
    /\ response.status \in 200..599
    /\ "Content-Type" \in DOMAIN response.headers
    /\ response.headers["Content-Type"] = <<"application/json">>
    /\ JSONParse(response.body).ok

C7_AtMostOneOutboundCall ==
    \A i \in DOMAIN calls :
        /\ calls[i].fetches <= 1
        /\ calls[i].pc \in {"idle", "params", "text", "unrouted"} => calls[i].fetches = 0
        /\ calls[i].pc \in {"fetch", "read", "done"} => calls[i].fetches = 1

\* C7 witness: the outbound call failed and the invocation has responded
C7_Witness ==
    \E i \in DOMAIN calls :
        /\ calls[i].pc = "done"
        /\ calls[i].thrown = "fetch"
        /\ calls[i].fetches = 1

\* a write request whose JSON body was read, answered by an upstream that
\* echoes the body with a 2xx status
EchoedRoundTrip(c) ==
    /\ c.pc = "done"
    /\ c.thrown = "none"
    /\ ReadsBody(c.inbound.method)
    /\ JSONParse(c.inbound.body).ok
    /\ c.outbound.body.present
    /\ c.served.kind = "echoBody"
    /\ c.served.status \in 200..299

\* C8 as stated: the round trip yields status 200 and a body equal to b.
C8_RoundTripStatus200 ==
    \A i \in DOMAIN calls :
        EchoedRoundTrip(calls[i]) =>
            /\ calls[i].response.status = 200
            /\ JSONParse(calls[i].response.body) = JSONParse(calls[i].inbound.body)

\* C8 amended: the round trip yields the upstream's own 2xx status (200
\* when the upstream answered 200) and a body that is the JSON value of b.
C8_RoundTripUpstreamStatus ==
    \A i \in DOMAIN calls :
        EchoedRoundTrip(calls[i]) =>
            /\ calls[i].response.status = calls[i].served.status
            /\ JSONParse(calls[i].response.body) = JSONParse(calls[i].inbound.body)

\* C8 witness: a POST of { "a" : 1 }, written with spaces, echoed with 200
C8_Witness ==
    \E i \in DOMAIN calls :
        /\ EchoedRoundTrip(calls[i])
        /\ calls[i].inbound.method = "POST"
        /\ calls[i].inbound.body = JsonDocSpaced
        /\ calls[i].response.status = 200
        /\ calls[i].response.body = JsonDoc

\* base, then '/' and the segments joined by '/', or '/' alone
BaseAndPath(request) == BACKEND_API_URL \o <<"/">> \o Join(request.path, <<"/">>)

C10_AnyMethodForwarded ==
    \A i \in DOMAIN calls :
        Sent(calls[i]) => calls[i].outbound.method = calls[i].inbound.method

\* C10 amended: for the five methods the route exports (GET, POST, PUT,
\* DELETE, PATCH) the outbound call uses the inbound method; a HEAD is
\* served by the GET handler and sent upstream as GET, and a method without
\* a handler is never forwarded.
C10_ExportedMethodsForwarded ==
    \A i \in DOMAIN calls :
        /\ calls[i].pc = "unrouted" =>
               calls[i].inbound.method \notin ExportedMethods /\ ~Sent(calls[i])
        /\ Sent(calls[i]) =>
               /\ calls[i].inbound.method \in ExportedMethods =>
                      calls[i].outbound.method = calls[i].inbound.method
               /\ calls[i].inbound.method \notin ExportedMethods =>
                      calls[i].inbound.method = "HEAD" /\ calls[i].outbound.method = "GET"

\* C10 witness: a DELETE that has been sent upstream as DELETE
C10_Witness ==
    \E i \in DOMAIN calls :
        /\ Sent(calls[i])
        /\ calls[i].inbound.method = "DELETE"
        /\ calls[i].outbound.method = "DELETE"


-----------------------------------------------------------------------------
(* C11: the Access-Control-Allow-Origin header of the response             *)

AllowOrigin == "Access-Control-Allow-Origin"

\* C11: the gateway's response contains an Access-Control-Allow-Origin header
\* if and only if the upstream response contained one, and then with the
\* upstream's value; a response built without an upstream response (the 500
\* envelope of a failed call) has none.
C11_CorsHeaderIffUpstreamHadOne ==
    \A i \in DOMAIN calls :
        LET c == calls[i]
        IN  /\ Answered(c) =>
                   /\ AllowOrigin \in DOMAIN c.response.headers
                          <=> AllowOrigin \in DOMAIN c.upstream.headers
                   /\ AllowOrigin \in DOMAIN c.response.headers =>
                          c.response.headers[AllowOrigin] = c.upstream.headers[AllowOrigin]
            /\ c.pc = "done" /\ ~Answered(c) =>
                   AllowOrigin \notin DOMAIN c.response.headers


-----------------------------------------------------------------------------
(* C12: the classifier                                                     *)

\* the host of an address: what stands between the scheme and the first
\* port, path, query or fragment
HostDelimiters == {"/", "?", "#", ":3000", ":8443"}
HostOf(url) ==
    LET ends == {k \in 2..Len(url) : url[k] \in HostDelimiters}
    IN  SubSeq(url, 2, IF ends = {} THEN Len(url)
                       ELSE (CHOOSE k \in ends : \A h \in ends : k <= h) - 1)

SandboxSuffixes == {".preview.signadot.com", ".sb.signadot.com"}

HostEndsInSandboxSuffix(url) ==
    LET host == HostOf(url)
    IN  Len(host) > 0 /\ host[Len(host)] \in SandboxSuffixes

\* C12: isSignadotUrl(address) is true exactly for the addresses whose host
\* ends in .preview.signadot.com or .sb.signadot.com: it is false for
\* http://localhost:3000 and for every address with another host, whatever
\* the rest of the address contains.
C12_IsolatedIffHostEndsInSuffix ==
    \A k \in DOMAIN resolved :
        resolved[k].op = "isSignadotUrl" =>
            resolved[k].result = HostEndsInSandboxSuffix(resolved[k].arg)


-----------------------------------------------------------------------------
(* C13: the leading separator of the logical path                          *)

\* two calls of getApiUrl on record, the first with '/' + p and the second
\* with p, p not starting with '/'
SlashedAndPlain(a, b) ==
    /\ a.op = "getApiUrl"
    /\ b.op = "getApiUrl"
    /\ ~StartsWithSlash(b.arg)
    /\ a.arg = <<"/">> \o b.arg

\* C13: under one configuration getApiUrl('/' + p) equals getApiUrl(p) for
\* every p that does not start with '/'; the normalization turns '/' + p
\* into p and leaves the normalized p as it is.
C13_LeadingSlashMakesNoDifference ==
    \A j, k \in DOMAIN resolved :
        SlashedAndPlain(resolved[j], resolved[k]) =>
            /\ resolved[j].result = resolved[k].result
            /\ resolved[j].clean = resolved[k].arg
            /\ resolved[k].clean = resolved[k].arg

C13_Witness ==
    \E j, k \in DOMAIN resolved :
        /\ SlashedAndPlain(resolved[j], resolved[k])
        /\ resolved[k].arg = <<"health">>
        /\ ~ApiIsSignadotUrl(API_URL)


-----------------------------------------------------------------------------
(* C14, C15: the target of a logical path                                  *)

\* result is the logical path p without its leading separator, if it has one
IsNormalizedPathOf(result, p) ==
    IF StartsWithSlash(p) THEN <<"/">> \o result = p ELSE result = p

\* the configured upstream is isolated: the classifier says so
ResolverIsolated == ApiIsSignadotUrl(API_URL)

\* the length of the logical path p once normalized
NormalizedLen(p) == Len(p) - (IF StartsWithSlash(p) THEN 1 ELSE 0)

\* C14: when the configured upstream is isolated, getApiUrl(p) is
\* /api/proxy/ followed by the normalized p, for every p: the result holds
\* neither the base address nor its host.
C14_IsolatedTargetIsGatewayPath ==
    \A k \in DOMAIN resolved :
        resolved[k].op = "getApiUrl" /\ ResolverIsolated =>
            LET result == resolved[k].result
            IN  /\ Len(result) = 5 + NormalizedLen(resolved[k].arg)
                /\ SubSeq(result, 1, 5) = <<"/", "api", "/", "proxy", "/">>
                /\ IsNormalizedPathOf(SubSeq(result, 6, Len(result)), resolved[k].arg)
                /\ ~Includes(result, API_URL)
                /\ ~Includes(result, HostOf(API_URL))

C14_Witness ==
    \E k \in DOMAIN resolved :
        /\ resolved[k].op = "getApiUrl"
        /\ ResolverIsolated
        /\ resolved[k].arg = <<"/", "health">>
        /\ resolved[k].result = <<"/", "api", "/", "proxy", "/", "health">>


RECURSIVE WithoutTrailingSlashes(_)
\* s without the separators it ends in, however many
WithoutTrailingSlashes(s) ==
    IF EndsWithSlash(s) THEN WithoutTrailingSlashes(SubSeq(s, 1, Len(s) - 1)) ELSE s

\* result is the address s without its trailing separator, if it has one
IsWithoutOneTrailingSlashOf(result, s) ==
    IF EndsWithSlash(s) THEN result \o <<"/">> = s ELSE result = s

\* the place of the joining separator in getApiUrl(p)
JoinAt(call) == Len(call.result) - NormalizedLen(call.arg)

\* the result is base, one '/', and the normalized p
JoinsBaseAndPath(call, base) ==
    /\ JoinAt(call) >= 1
    /\ call.result[JoinAt(call)] = "/"
    /\ SubSeq(call.result, 1, JoinAt(call) - 1) = base
    /\ IsNormalizedPathOf(SubSeq(call.result, JoinAt(call) + 1, Len(call.result)), call.arg)

\* no separator stands right before or right after the joining separator
NoDoubledSeparatorAtJoin(call) ==
    /\ JoinAt(call) > 1 => call.result[JoinAt(call) - 1] # "/"
    /\ JoinAt(call) < Len(call.result) => call.result[JoinAt(call) + 1] # "/"

\* p starts with two separators
StartsWithTwoSlashes(p) == Len(p) > 1 /\ p[1] = "/" /\ p[2] = "/"
\* the address ends in two separators
EndsWithTwoSlashes(s) == Len(s) > 1 /\ s[Len(s)] = "/" /\ s[Len(s) - 1] = "/"

\* C15 as stated: when the configured upstream is not isolated, getApiUrl(p)
\* is the base address without the separators it ends in, however many,
\* exactly one '/' and the normalized p, with no doubled separator at the
\* join, whether or not p starts with a separator.
C15_NoDoubledSeparatorWhateverBase ==
    \A k \in DOMAIN resolved :
        /\ resolved[k].op = "getApiUrl"
        /\ ~ResolverIsolated
        /\ ~StartsWithTwoSlashes(resolved[k].arg)
        => /\ JoinsBaseAndPath(resolved[k], WithoutTrailingSlashes(API_URL))
           /\ NoDoubledSeparatorAtJoin(resolved[k])

\* C15: when the configured upstream is not isolated, getApiUrl(p) is the
\* base address without its one trailing separator, exactly one '/' and p
\* without its one leading separator; there is no doubled separator at the
\* join when the base address does not end in two separators and p does not
\* start with two.
C15_OneSeparatorRemovedOnEachSide ==
    \A k \in DOMAIN resolved :
        resolved[k].op = "getApiUrl" /\ ~ResolverIsolated =>
            /\ \E base \in {API_URL, SubSeq(API_URL, 1, Len(API_URL) - 1)} :
                  /\ IsWithoutOneTrailingSlashOf(base, API_URL)
                  /\ JoinsBaseAndPath(resolved[k], base)
            /\ ~EndsWithTwoSlashes(API_URL) /\ ~StartsWithTwoSlashes(resolved[k].arg)
                  => NoDoubledSeparatorAtJoin(resolved[k])

C15_Witness ==
    \E k \in DOMAIN resolved :
        /\ resolved[k].op = "getApiUrl"
        /\ ~ResolverIsolated
        /\ EndsWithSlash(API_URL)
        /\ ~EndsWithTwoSlashes(API_URL)
        /\ resolved[k].arg = <<"/", "health">>
        /\ resolved[k].result = <<"https://", "api", ".example.com", "/", "health">>


-----------------------------------------------------------------------------
(* C16: the headers of a client call                                       *)

-----------------------------------------------------------------------------
(* C17 to C20: the state of the poller                                     *)

\* C17: in every reachable state of the poller, under any interleaving of
\* scheduled probes, manual probes and probe completions, status = online
\* implies that lastChecked is present and the error is absent, and
\* status = offline implies that the error is present and not empty.
C17_StatusDeterminesFields ==
    /\ statusState = "online" => lastChecked.present /\ ~errorState.present
    /\ statusState = "offline" => errorState.present /\ errorState.text # <<>>

\* the body text is a JSON value whose status member is the string healthy
SaysHealthy(text) ==
    /\ JSONParse(text).ok
    /\ Property(JSONParse(text).val, "status") = [defined |-> TRUE, val |-> <<Q, "healthy", Q>>]

\* the latest step completed a probe of the mounted component with this kind
\* of event
Completed(kind) == event.kind = kind /\ mounted = "yes"

\* C18: a probe whose health call returns a 2xx response with a JSON payload
\* whose status is healthy sets status to online, sets lastChecked to the
\* time of its completion and leaves the error absent.
C18_HealthyProbeLeavesNoError ==
    Completed("body") /\ event.reply.status \in 200..299 /\ SaysHealthy(event.reply.text) =>
        /\ statusState = "online"
        /\ lastChecked = DateAt(now)
        /\ ~errorState.present

\* C19: a probe whose health call returns a status outside 200..299 sets
\* status to offline with an error that holds the status code; a probe whose
\* call returns 2xx with a JSON payload, other than null, whose status is not
\* healthy sets status to offline with the error 'Backend returned unhealthy
\* status'.
C19_BadStatusOrUnhealthyPayloadGoesOffline ==
    /\ Completed("response") /\ event.reply.status \notin 200..299 =>
          /\ statusState = "offline"
          /\ errorState.present
          /\ ToString(event.reply.status) \in Range(errorState.text)
    /\ /\ Completed("body")
       /\ event.reply.status \in 200..299
       /\ JSONParse(event.reply.text).ok
       /\ JSONParse(event.reply.text).val # <<"null">>
       /\ ~SaysHealthy(event.reply.text)
       => /\ statusState = "offline"
          /\ errorState = [present |-> TRUE, text |-> <<"Backend returned unhealthy status">>]

C19_Witness ==
    /\ Completed("response")
    /\ event.reply.status = 503
    /\ statusState = "offline"
    /\ "503" \in Range(errorState.text)
    /\ event.probe > 1

\* C20: a probe whose health call is still pending when its abort timer
\* fires, 5 seconds after its start, is aborted and ends with status offline
\* and the error 'Request timeout', exactly.
C20_TimeoutGoesOffline ==
    Completed("timeout") =>
        /\ probes[event.probe].stage = "done"
        /\ probes[event.probe].timer = "fired"
        /\ statusState = "offline"
        /\ errorState = [present |-> TRUE, text |-> <<"Request timeout">>]

C20_Witness ==
    /\ Completed("timeout")
    /\ now = 5000
    /\ statusState = "offline"
    /\ errorState.text = <<"Request timeout">>


-----------------------------------------------------------------------------
(* C21 to C25: the schedule and the timers of the poller                   *)

\* the latest step started a probe from this source
Started(source) == event.kind = "start" /\ probes[event.probe].source = source

\* the probes started by the interval
Scheduled == {i \in DOMAIN probes : probes[i].source = "interval"}

\* C21: mounting starts one probe at once; while the component is mounted
\* the interval is armed, its k-th firing is due k times 30 seconds after the
\* mount and starts the k-th scheduled probe then, none being skipped; once
\* the component is unmounted the interval is cleared and no probe starts
\* any more.
C21_ScheduleLivesWithComponent ==
    /\ mounted # "no" => Len(probes) >= 1 /\ probes[1].source = "mount"
    /\ mounted = "yes" =>
          /\ interval.armed
          /\ interval.next = (interval.ticks + 1) * PollEvery
          /\ Cardinality(Scheduled) = interval.ticks
          /\ now <= interval.next
    /\ Started("interval") => mounted = "yes" /\ now = interval.ticks * PollEvery
    /\ mounted = "unmounted" => ~interval.armed /\ event.kind # "start"

C21_Witness ==
    /\ mounted = "unmounted"
    /\ event.kind = "advance"
    /\ now > PollEvery
    /\ Cardinality(Scheduled) = 1
    /\ probes[1].source = "mount"


\* C22: a manual probe resets the reference point of the schedule: right
\* after a manual probe has started at time t, the next firing of the
\* interval is due no earlier than t + 30 seconds.
C22_ManualStartResetsSchedule ==
    Started("manual") /\ mounted = "yes" => interval.next >= now + PollEvery


\* a probe is in flight until its call of checkBackendStatus has returned
InFlight(i) == probes[i].stage # "done"
NoneInFlight == \A i \in DOMAIN probes : ~InFlight(i)

\* the events that end a probe
Completions == {"response", "rejected", "timeout", "body", "bodyFailed"}

\* C23: when probes overlap the last one to complete determines the visible
\* state: once no probe is in flight, status, lastChecked and the error are
\* what the outcome of the probe that completed last produces by itself,
\* online with the completion time and no error for a healthy outcome,
\* offline with an error for any other, whatever the probes that completed
\* earlier wrote.
C23_LastCompletionDeterminesState ==
    mounted = "yes" /\ NoneInFlight /\ event.kind \in Completions =>
        IF event.kind = "body" /\ SaysHealthy(event.reply.text)
        THEN statusState = "online" /\ lastChecked = DateAt(now) /\ ~errorState.present
        ELSE statusState = "offline" /\ errorState.present

\* C24: after the component is unmounted neither the interval nor any abort
\* timer is pending, and in every state where no probe is in flight no abort
\* timer is pending.
C24_NoTimerOutlivesItsUse ==
    /\ mounted = "unmounted" =>
          /\ ~interval.armed
          /\ \A i \in DOMAIN probes : probes[i].timer # "pending"
    /\ NoneInFlight => \A i \in DOMAIN probes : probes[i].timer # "pending"

\* C25: the abort timer of a probe bounds the whole of its health call: as
\* long as a probe is in flight, waiting for the response or for its body,
\* its abort timer is pending, so that no probe stays in flight for ever.
C25_AbortBoundsWholeCall ==
    \A i \in DOMAIN probes : InFlight(i) => probes[i].timer = "pending"


-----------------------------------------------------------------------------
(* C26, C27: the bodies the gateway relays and forwards                    *)

\* C26: whenever the upstream's body text has been read, the gateway's
\* response is built from it and not the error envelope: its body is the
\* parsed JSON value of the text when the text is valid JSON, and the text
\* itself as a string otherwise, be the text a JSON object, plain or empty.
C26_EveryUpstreamBodyRelayed ==
    \A i \in DOMAIN calls :
        Answered(calls[i]) =>
            /\ calls[i].thrown = "none"
            /\ calls[i].response.body =
                  IF JSONParse(calls[i].upstream.text).ok
                  THEN JSONParse(calls[i].upstream.text).val
                  ELSE StringValue(calls[i].upstream.text)

WriteMethods == {"POST", "PUT", "PATCH"}

\* the body of a write method could not be read: the call went out without
\* one
ReadFailed(c) == Sent(c) /\ c.outbound.method \in WriteMethods /\ ~c.outbound.body.present

\* C27: the outbound call carries a body only for POST, PUT and PATCH, and
\* then the inbound body as it was read; GET and DELETE are forwarded
\* without a body. When the inbound body of a write method cannot be read
\* the outbound call is made all the same, once and without a body, and its
\* outcome is relayed as any other: no invocation ends without its outbound
\* call, and with no later step failing the response has the upstream's
\* status and is not the envelope.
C27_BodyForwardedForWriteMethodsOnly ==
    \A i \in DOMAIN calls :
        LET c == calls[i]
        IN  /\ Sent(c) /\ c.outbound.body.present =>
                   /\ c.inbound.method \in WriteMethods
                   /\ c.outbound.body.text = c.inbound.body
            /\ Sent(c) /\ c.outbound.method \in {"GET", "DELETE"} => ~c.outbound.body.present
            /\ c.pc = "done" => c.fetches = 1
            /\ ReadFailed(c) /\ c.pc = "done" /\ c.thrown = "none" =>
                   /\ c.response.status = c.upstream.status
                   /\ ~IsEnvelope(c.response.body)

C27_Witness ==
    \E i \in DOMAIN calls :
        /\ ReadFailed(calls[i])
        /\ calls[i].inbound.method = "POST"
        /\ calls[i].inbound.body = JsonDoc
        /\ calls[i].pc = "done"
        /\ calls[i].response.status = 201
        /\ calls[i].response.body = JsonDoc


-----------------------------------------------------------------------------
(* C28 to C30: the start of a probe, its failure, and the schedule         *)

\* C28: the start of a probe, be it the first one at mount, a scheduled or a
\* manual one, sets status to checking and the error to absent as its health
\* call is issued, whatever the state was before.
C28_StartSetsCheckingAndClearsError ==
    event.kind = "start" /\ mounted = "yes" =>
        /\ statusState = "checking"
        /\ ~errorState.present
        /\ probes[event.probe].stage = "fetch"

C28_Witness ==
    /\ Started("manual")
    /\ mounted = "yes"
    /\ lastChecked.present
    /\ statusState = "checking"
    /\ \E i \in DOMAIN probes : i # event.probe /\ probes[i].timer = "pending"

\* C29: a probe that fails with an exception other than the abort of its
\* timeout ends with status offline and an error that is the exception's
\* message, or 'Failed to connect to backend' when the exception has no
\* message: the error is never left absent or empty.
C29_FailureLeavesMessageOrGeneric ==
    Completed("rejected") \/ Completed("bodyFailed") =>
        /\ statusState = "offline"
        /\ errorState.present
        /\ errorState.text # <<>>
        /\ errorState.text = IF event.caught.message # <<>> THEN event.caught.message
                             ELSE <<"Failed to connect to backend">>

\* C30: a probe in flight or a failed probe never stops the schedule: while
\* the component is mounted the interval stays armed, and whenever a firing
\* is due a new probe can start, whatever stage the earlier probes are in
\* and however they ended.
C30_NothingStopsSchedule ==
    mounted = "yes" =>
        /\ interval.armed
        /\ IntervalDue /\ interval.ticks < MaxTicks /\ Len(probes) < MaxProbes => ENABLED Tick

C30_Witness ==
    /\ Started("interval")
    /\ mounted = "yes"
    /\ statusState = "checking"
    /\ \E i \in DOMAIN probes : i # event.probe /\ probes[i].stage = "fetch"


-----------------------------------------------------------------------------
(* C31 to C35: invocations side by side, and the poller's fields           *)

\* the outbound request the invocation c sends when it runs alone: built
\* from its own inbound request and the configuration
SoloOutbound(c) ==
    [url |-> fullBackendUrl(BACKEND_API_URL, c.inbound),
     method |-> HandlerMethod(c.handler),
     headers |-> headers(BACKEND_API_URL, SIGNADOT_API_KEY, c.inbound),
     body |-> IF c.outbound.body.present THEN Some(c.inbound.body) ELSE Undefined]

\* the response the invocation c gives when it runs alone against the
\* upstream that served it, with the same steps failing
SoloResponse(c) ==
    CASE c.thrown = "fetch" -> Catch(c, "fetch", FetchFailed).response
      [] c.thrown = "text" -> Catch(c, "text", BodyTerminated).response
      [] OTHER -> Relay([c EXCEPT !.upstream = UpstreamAnswer(c.served, SoloOutbound(c))]).response

\* C31: invocations of the gateway that run side by side do not affect one
\* another: under any interleaving of their steps each one sends the request
\* built from its own inbound request and the configuration, and answers
\* what it would answer alone against the same upstream.
C31_InvocationsIndependent ==
    \A i \in DOMAIN calls :
        /\ Sent(calls[i]) => calls[i].outbound = SoloOutbound(calls[i])
        /\ calls[i].pc = "done" => calls[i].response = SoloResponse(calls[i])

C31_Witness ==
    \E i, j \in DOMAIN calls :
        /\ calls[i].pc = "done" /\ calls[i].thrown = "none"
        /\ calls[i].served.kind = "echoBody"
        /\ calls[i].inbound.body = PlainText
        /\ calls[i].response.body = StringValue(PlainText)
        /\ calls[j].pc = "read"
        /\ calls[j].served.kind = "echoBody"
        /\ calls[j].inbound.body = JsonDoc
        /\ calls[j].upstream.text = JsonDoc


\* C32: in every state of the poller, however its probes overlap, a status
\* of checking comes with no error.
C32_CheckingHasNoError ==
    statusState = "checking" => ~errorState.present

C32_Witness ==
    /\ statusState = "checking"
    /\ ~errorState.present
    /\ mounted = "yes"
    /\ Started("interval")
    /\ \E i \in DOMAIN probes : probes[i].stage = "json" /\ probes[i].source = "manual"
    /\ \E i \in DOMAIN probes : probes[i].stage = "done" /\ probes[i].source = "mount"

\* the step completes a probe of the mounted component with the outcome online
HealthyCompletion ==
    /\ mounted = "yes"
    /\ event'.kind = "body"
    /\ statusState' = "online"

\* C33: lastChecked is written by a healthy completion only, which sets it to
\* the time of that completion: the start of a probe and a completion with
\* an offline outcome leave it as it is, and once set it is never cleared.
C33_LastCheckedOnlyByHealthyCompletion ==
    [][/\ lastChecked' # lastChecked => HealthyCompletion
       /\ HealthyCompletion => lastChecked' = DateAt(now')
       /\ lastChecked.present => lastChecked'.present /\ lastChecked'.at >= lastChecked.at]_vars

C33_Witness ==
    /\ lastChecked.present
    /\ lastChecked.at > 0
    /\ lastChecked.at < now
    /\ statusState = "offline"
    /\ Completed("body")
    /\ errorState.present

\* the step starts a manual probe
ManualStart ==
    /\ Len(probes') = Len(probes) + 1
    /\ probes'[Len(probes')].source = "manual"

\* C34: the manual trigger is disabled whenever status is checking: a manual
\* probe starts only from a state whose status is online or offline.
C34_NoManualStartWhileChecking ==
    /\ [](statusState = "checking" => ~ENABLED Refresh)
    /\ [][ManualStart => statusState \in {"online", "offline"}]_vars

C34_Witness ==
    /\ Started("manual")
    /\ statusState = "checking"
    /\ ~lastChecked.present
    /\ \A i \in DOMAIN probes : i # event.probe => probes[i].stage = "done"
    /\ Len(probes) < MaxProbes

-----------------------------------------------------------------------------
(* C36 to C38: the resolver, the gateway and the poller together           *)

\* the resolver returned this target for a call of getApiUrl
Resolved(k) == resolved[k].op = "getApiUrl"

Serves(i, k) ==
    /\ Resolved(k)
    /\ IsGatewayPath(resolved[k].result)
    /\ Sent(calls[i])
    /\ calls[i].inbound.path = PathParams(resolved[k].result)
    /\ calls[i].inbound.query = <<>>

\* C37: the URL the gateway fetches for the request path getApiUrl(p) is the
\* URL of a direct call: the base address without its trailing separator,
\* one '/', and p without its leading separator, whether or not the base
\* address ends in a separator.
C37_GatewayFetchesDirectUrl ==
    \A k \in DOMAIN resolved : \A i \in DOMAIN calls :
        Serves(i, k) =>
            \E base \in {BACKEND_API_URL, SubSeq(BACKEND_API_URL, 1, Len(BACKEND_API_URL) - 1)} :
            \E path \in {resolved[k].arg, SubSeq(resolved[k].arg, 2, Len(resolved[k].arg))} :
                /\ IsWithoutOneTrailingSlashOf(base, BACKEND_API_URL)
                /\ IsNormalizedPathOf(path, resolved[k].arg)
                /\ calls[i].outbound.url = base \o <<"/">> \o path


\* the gateway could not reach the upstream for the request of probe i
UpstreamUnreachable(i) == calls[i].pc = "done" /\ calls[i].thrown = "fetch"

\* the latest step ended a probe
Ended == event.kind \in {"response", "timeout", "body"} /\ probes[event.probe].stage = "done"

\* C38: with an isolated upstream a probe whose request the gateway could
\* not forward, the upstream being unreachable, ends with status offline and
\* an error that starts with 'HTTP 500': the failure reaches the poller as a
\* response, not as an exception and not as 'Request timeout'.
C38_UnreachableUpstreamSeenAsHttp500 ==
    Ended /\ mounted = "yes" /\ UpstreamUnreachable(event.probe) =>
        /\ statusState = "offline"
        /\ errorState.present
        /\ Len(errorState.text) >= 2
        /\ SubSeq(errorState.text, 1, 2) = <<"HTTP ", "500">>

====
